---- MODULE Spec2Model ----
(***************************************************************************)
(* Job List Controller of src/script.js: the in-memory job collection      *)
(* (state.jobs, state.currentTab), the part of the document it reads and   *)
(* writes (job-entry elements, dashboard cards, count message, empty-state *)
(* block, tab buttons) and its two delegated click handlers.               *)
(*                                                                         *)
(* Every handler runs to completion (single-threaded event loop), so one   *)
(* action is one whole handler: the mutation and the updateUI / renderJobs *)
(* it ends with.  Clicks are dispatched to any attached element, shown or  *)
(* hidden: the handlers never look at an element's display.                *)
(*                                                                         *)
(* A text is a sequence of tokens: a word or a white-space token.  trim()  *)
(* strips white-space tokens at both ends, toLowerCase() maps every word   *)
(* to its lower-case form, a number is rendered as its decimal digits.     *)
(***************************************************************************)
EXTENDS Integers, Sequences, FiniteSets, TLC

\* Bounds of the model.
MaxJobs == 4          \* job entries in the markup, well-formed markup (Spec)
MaxJobsMarkup == 2    \* job entries in the markup, optional pieces missing (SpecMarkup)
MaxMissing == 1       \* optional pieces the markup lacks (SpecMarkup)
MaxJobsCalls == 3     \* job entries in the markup, direct calls (SpecCalls)

VARIABLES
  jobs,          \* state.jobs: sequence of [element, status]
  currentTab,    \* state.currentTab: a (trimmed) text
  markup,        \* what the page's markup holds: fixed when the document is loaded
  attached,      \* job-entry elements attached to DOM.container
  dataset,       \* el.dataset.status of every job-entry element
  display,       \* el.style.display of every job-entry element
  badgeText,     \* textContent of every job entry's badge button
  badgeClass,    \* className of every job entry's badge button
  dashboard,     \* textContent of the <p> of every dashboard card
  countMsg,      \* textContent of #job-count
  emptyBlocks,   \* number of .no-jobs-msg blocks in DOM.container
  emptyDisplay,  \* style.display of the first .no-jobs-msg block
  tabClass,      \* which tab buttons carry the emphasis classes
  last           \* the event handled last and how the handler ended

vars == <<jobs, currentTab, markup, attached, dataset, display, badgeText,
          badgeClass, dashboard, countMsg, emptyBlocks, emptyDisplay,
          tabClass, last>>

\* Everything but the record of the last event.
view == <<jobs, currentTab, markup, attached, dataset, display, badgeText,
          badgeClass, dashboard, countMsg, emptyBlocks, emptyDisplay,
          tabClass>>

----------------------------------------------------------------------------
\* Texts

WS == {" ", "\n"}

Lower(w) ==
  CASE w = "Interview" -> "interview"
    [] w = "INTERVIEW" -> "interview"
    [] w = "Rejected"  -> "rejected"
    [] w = "REJECTED"  -> "rejected"
    [] w = "Not"       -> "not"
    [] w = "Applied"   -> "applied"
    [] w = "Apply"     -> "apply"
    [] w = "All"       -> "all"
    [] OTHER           -> w

toLowerCase(t) == [i \in 1..Len(t) |-> Lower(t[i])]

RECURSIVE trimStart(_)
trimStart(t) ==
  IF t # <<>> /\ Head(t) \in WS THEN trimStart(Tail(t)) ELSE t

RECURSIVE trimEnd(_)
trimEnd(t) ==
  IF t # <<>> /\ t[Len(t)] \in WS THEN trimEnd(SubSeq(t, 1, Len(t) - 1)) ELSE t

\* trim that strips the start only.
trimLeft(t) == trimStart(t)

trim(t) == trimEnd(trimStart(t))

Digit(d) ==
  CASE d = 0 -> "0" [] d = 1 -> "1" [] d = 2 -> "2" [] d = 3 -> "3"
    [] d = 4 -> "4" [] d = 5 -> "5" [] d = 6 -> "6" [] d = 7 -> "7"
    [] d = 8 -> "8" [] d = 9 -> "9"

RECURSIVE NumToText(_)
NumToText(n) ==
  IF n < 10 THEN <<Digit(n)>> ELSE NumToText(n \div 10) \o <<Digit(n % 10)>>

\* A status or a tab name as the one-word text it is.
Str(w) == <<w>>

----------------------------------------------------------------------------
\* The document

Wrapper == 0                      \* a .job-item ancestor of the container
NoElement == -1                   \* closest() found nothing: null
Status == {"none", "Interview", "Rejected"}
DashNames == {"Total", "Interview", "Rejected"}
TabButtons == {"All", "Interview", "Rejected"}
NoText == <<"?">>                 \* text of an element that is not there

\* The label of every tab button as the markup writes it.
TabText(b) ==
  CASE b = "All" -> <<"All">>
    [] b = "Interview" -> <<"\n", " ", "Interview", "\n">>
    [] b = "Rejected" -> <<" ", "Rejected", " ">>

InitialBadge == <<"Not", " ", "Applied">>

\* The job-entry elements of the markup, in document order.
JobElements == 1..markup.n

\* How many optional pieces a markup lacks (dashboard cards, #job-count,
\* badge buttons), counting a container that sits inside another .job-item.
Missing(m) ==
  Cardinality(DashNames \ m.dashboard) + Cardinality((1..m.n) \ m.badges)
  + (IF m.countMsg THEN 0 ELSE 1) + (IF m.wrapped THEN 1 ELSE 0)

\* The markups with at most maxN job entries of which at most maxMissing
\* optional pieces are missing.
Markups(maxN, maxMissing) ==
  UNION { { m \in [n : {n}, dashboard : SUBSET DashNames, countMsg : BOOLEAN,
                   badges : SUBSET (1..n), wrapped : BOOLEAN] :
              Missing(m) <= maxMissing } : n \in 0..maxN }

----------------------------------------------------------------------------
\* Pure parts of the controller.  Indices are JavaScript's: 0 .. length-1.

ValidIndex(js, index) == index \in 0..(Len(js) - 1)

\* js[index]: undefined outside the array.
Undefined == [element |-> NoElement, status |-> "undefined"]

at(js, index) == IF ValidIndex(js, index) THEN js[index + 1] ELSE Undefined

\* findIndex that answers the index the element had when the page loaded.
findIndexCached(js, el) == IF el >= 1 /\ el <= Len(js) THEN el - 1 ELSE -1

\* Array.prototype.findIndex with (j) => j.element === el.
findIndex(js, el) ==
  IF \E i \in 1..Len(js) : js[i].element = el
  THEN (CHOOSE i \in 1..Len(js) :
          /\ js[i].element = el
          /\ \A k \in 1..(i - 1) : js[k].element # el) - 1
  ELSE -1

\* splice that removes the record after the one asked for.
spliceNext(js, index) ==
  IF index + 1 < Len(js)
  THEN SubSeq(js, 1, index + 1) \o SubSeq(js, index + 3, Len(js))
  ELSE SubSeq(js, 1, Len(js) - 1)

\* splice(index, 2): the record asked for and the one after it.
spliceTwo(js, index) ==
  IF index < 0 \/ index >= Len(js) THEN js
  ELSE SubSeq(js, 1, index) \o SubSeq(js, index + 3, Len(js))

\* Array.prototype.splice(index, 1): a negative index counts from the end.
splice(js, index) ==
  LET len == Len(js)
      start == IF index < 0
               THEN (IF len + index < 0 THEN 0 ELSE len + index)
               ELSE (IF index > len THEN len ELSE index)
  IN  IF start < len
      THEN SubSeq(js, 1, start) \o SubSeq(js, start + 2, len)
      ELSE js

CountStatus(js, s) == Cardinality({i \in 1..Len(js) : js[i].status = s})

\* counts that takes every touched record for an interview.
countsTouched(js) ==
  [Total |-> Len(js),
   Interview |-> Len(js) - CountStatus(js, "none"),
   Rejected |-> CountStatus(js, "Rejected")]

\* The counts object of updateDashboardCounts.
counts(js) ==
  [Total |-> Len(js),
   Interview |-> CountStatus(js, "Interview"),
   Rejected |-> CountStatus(js, "Rejected")]

\* updateDashboardCounts that writes the Interview count into the card Total.
updateDashboardCountsCopied(js, dash) ==
  [k \in DashNames |->
     IF k \in markup.dashboard
     THEN NumToText(counts(js)[IF k = "Total" THEN "Interview" ELSE k])
     ELSE dash[k]]

\* What updateDashboardCounts leaves in the dashboard cards.
updateDashboardCounts(js, dash) ==
  [k \in DashNames |->
     IF k \in markup.dashboard THEN NumToText(counts(js)[k]) ELSE dash[k]]

\* isVisible with a tab All that shows every record.
isVisibleAll(tab, status) == tab = Str("All") \/ tab = Str(status)

\* isVisible of renderJobs.
isVisible(tab, status) ==
  (tab = Str("All") /\ status = "none") \/ tab = Str(status)

visibleCount(js, tab) ==
  Cardinality({i \in 1..Len(js) : isVisible(tab, js[i].status)})

\* The display renderJobs gives the element of every record.
renderDisplay(js, tab, disp) ==
  [e \in DOMAIN disp |->
     IF \E i \in 1..Len(js) : js[i].element = e
     THEN LET i == CHOOSE k \in 1..Len(js) : js[k].element = e
          IN  IF isVisible(tab, js[i].status) THEN "block" ELSE "none"
     ELSE disp[e]]

\* The text renderJobs writes into #job-count.
countText(n) == NumToText(n) \o <<" ", "jobs">>

\* toggleEmptyState that leaves a block it has shown as it is.
toggleEmptyStateNoHide(n, blocks, disp) ==
  IF n = 0
  THEN [blocks |-> IF blocks = 0 THEN 1 ELSE blocks, display |-> "flex"]
  ELSE [blocks |-> blocks, display |-> disp]

\* toggleEmptyState that builds a block whenever nothing is visible.
toggleEmptyStateRebuild(n, blocks, disp) ==
  IF n = 0
  THEN [blocks |-> blocks + 1, display |-> "flex"]
  ELSE IF blocks > 0
       THEN [blocks |-> blocks, display |-> "none"]
       ELSE [blocks |-> blocks, display |-> disp]

\* toggleEmptyState: the .no-jobs-msg blocks of the container and the display
\* of the first of them.
toggleEmptyState(n, blocks, disp) ==
  IF n = 0
  THEN [blocks |-> IF blocks = 0 THEN 1 ELSE blocks, display |-> "flex"]
  ELSE IF blocks > 0
       THEN [blocks |-> blocks, display |-> "none"]
       ELSE [blocks |-> blocks, display |-> disp]

\* newStatus that compares the label with the status name.
newStatusOfExact(label) ==
  IF label = Str("Interview") THEN "Interview" ELSE "Rejected"

\* newStatus of updateJobStatus.
newStatusOf(label) ==
  IF label = Str("interview") THEN "Interview" ELSE "Rejected"

\* className updateJobStatus gives the badge.
badgeClassOf(status) == IF status = "Interview" THEN "green" ELSE "red"

----------------------------------------------------------------------------
\* The views: updateUI and renderJobs, on the collection and tab they are
\* called with; disp is the display of the elements still in the document.

renderJobs(js, tab, disp) ==
  LET n == visibleCount(js, tab)
      empty == toggleEmptyState(n, emptyBlocks, emptyDisplay)
  IN  /\ display' = renderDisplay(js, tab, disp)
      /\ countMsg' = IF markup.countMsg THEN countText(n) ELSE countMsg
      /\ emptyBlocks' = empty.blocks
      /\ emptyDisplay' = empty.display

updateUI(js, tab) ==
  /\ dashboard' = updateDashboardCounts(js, dashboard)
  /\ renderJobs(js, tab, display)

\* The event handled last: how it came in (the page's load, a click in the
\* tab bar, a click in the container, a direct call), how the handler ended,
\* the job entry of the container that encloses the click target (NoElement
\* when none does), the element closest() resolved, the index the operation
\* ran on, the status label it was given ("interview", "rejected") and the
\* status the record had before.
Event(via, kind, target, el, index, label, prior) ==
  [via |-> via, kind |-> kind, target |-> target, el |-> el, index |-> index,
   label |-> label, prior |-> prior]

Quiet(via, kind, target, el, index) ==
  Event(via, kind, target, el, index, "none", "none")

----------------------------------------------------------------------------
\* Initialization: the state when init() has returned.
\* The markup emphasizes the tab All, the tab state.currentTab starts with.

InitFrom(m) ==
  LET js == [i \in 1..m.n |-> [element |-> i, status |-> "none"]]
      tab == Str("All")
      empty == toggleEmptyState(visibleCount(js, tab), 0, "absent")
  IN  /\ markup = m
      /\ jobs = js
      /\ currentTab = tab
      /\ attached = 1..m.n
      /\ dataset = [e \in 1..m.n |-> "none"]
      /\ display = renderDisplay(js, tab, [e \in 1..m.n |-> ""])
      /\ badgeText = [e \in 1..m.n |-> IF e \in m.badges THEN InitialBadge ELSE NoText]
      /\ badgeClass = [e \in 1..m.n |-> IF e \in m.badges THEN "initial" ELSE "absent"]
      /\ dashboard = updateDashboardCounts(js, [k \in DashNames |-> NoText])
      /\ countMsg = IF m.countMsg THEN countText(visibleCount(js, tab)) ELSE NoText
      /\ emptyBlocks = empty.blocks
      /\ emptyDisplay = empty.display
      /\ tabClass = [b \in TabButtons |-> b = "All"]
      /\ last = Quiet("load", "init", NoElement, NoElement, -1)

Init == \E m \in Markups(MaxJobs, 0) : InitFrom(m)

InitCalls == \E m \in Markups(MaxJobsCalls, 0) : InitFrom(m)

InitMarkup == \E m \in Markups(MaxJobsMarkup, MaxMissing) : InitFrom(m)

----------------------------------------------------------------------------
\* Deletion and status transition

\* deleteJob(index); reading state.jobs[index].element of no record throws.
\* Nothing refers to the removed element any more: it leaves the document
\* and with it the model (dataset, display and badge are kept for attached
\* elements only).
\* deleteJob that reads the element through optional chaining.
deleteJobNeverThrows(index) == FALSE

deleteJobThrows(index) == at(jobs, index) = Undefined

deleteJob(index) ==
  LET js == splice(jobs, index)
      el == at(jobs, index).element
      left == attached \ {el}
  IN  /\ attached' = left
      /\ jobs' = js
      /\ dataset' = [e \in left |-> dataset[e]]
      /\ badgeText' = [e \in left |-> badgeText[e]]
      /\ badgeClass' = [e \in left |-> badgeClass[e]]
      /\ dashboard' = updateDashboardCounts(js, dashboard)
      /\ renderJobs(js, currentTab, [e \in left |-> display[e]])
      /\ UNCHANGED <<currentTab, markup, tabClass>>

\* updateJobStatus(index, newStatusLabel); writing job.status of no record
\* throws.
\* updateJobStatus that looks for the badge without testing the wrapper.
updateJobStatusThrowsNoBadge(index) ==
  at(jobs, index) = Undefined \/ at(jobs, index).element \notin markup.badges

updateJobStatusThrows(index) == at(jobs, index) = Undefined

\* updateJobStatus that works on the first record whatever the index.
updateJobStatusFirst(index, newStatusLabel) ==
  LET job == at(jobs, 0)
      newStatus == newStatusOf(newStatusLabel)
      js == [i \in 1..Len(jobs) |->
               IF i = 1 THEN [jobs[i] EXCEPT !.status = newStatus] ELSE jobs[i]]
      badgeBtn == job.element \in markup.badges
  IN  /\ jobs' = js
      /\ dataset' = [e \in DOMAIN dataset |->
                       IF e = job.element THEN newStatus ELSE dataset[e]]
      /\ badgeText' = IF badgeBtn
                      THEN [e \in DOMAIN badgeText |->
                              IF e = job.element THEN Str(newStatus)
                                                 ELSE badgeText[e]]
                      ELSE badgeText
      /\ badgeClass' = IF badgeBtn
                       THEN [e \in DOMAIN badgeClass |->
                               IF e = job.element THEN badgeClassOf(newStatus)
                                                  ELSE badgeClass[e]]
                       ELSE badgeClass
      /\ updateUI(js, currentTab)
      /\ UNCHANGED <<currentTab, markup, attached, tabClass>>

updateJobStatus(index, newStatusLabel) ==
  LET job == at(jobs, index)
      newStatus == newStatusOf(newStatusLabel)
      js == [i \in 1..Len(jobs) |->
               IF i = index + 1 THEN [jobs[i] EXCEPT !.status = newStatus]
                                ELSE jobs[i]]
      badgeBtn == job.element \in markup.badges
  IN  /\ jobs' = js
      /\ dataset' = [e \in DOMAIN dataset |->
                       IF e = job.element THEN newStatus ELSE dataset[e]]
      /\ badgeText' = IF badgeBtn
                      THEN [e \in DOMAIN badgeText |->
                              IF e = job.element THEN Str(newStatus)
                                                 ELSE badgeText[e]]
                      ELSE badgeText
      /\ badgeClass' = IF badgeBtn
                       THEN [e \in DOMAIN badgeClass |->
                               IF e = job.element THEN badgeClassOf(newStatus)
                                                  ELSE badgeClass[e]]
                       ELSE badgeClass
      /\ updateUI(js, currentTab)
      /\ UNCHANGED <<currentTab, markup, attached, tabClass>>

----------------------------------------------------------------------------
\* Click events

\* Targets of a click in the tab bar: a tab button, or something that is no
\* button (the bar itself, an icon inside a button).
TabTargets ==
  { [tag |-> "BUTTON", button |-> b] : b \in TabButtons }
  \cup { [tag |-> "SPAN", button |-> "All"], [tag |-> "DIV", button |-> "none"] }

\* Labels of the buttons of a job entry other than its badge.
ButtonTexts ==
  { <<"Interview">>, <<"\n", "INTERVIEW", " ">>, <<" ", "rejected", "\n">>,
    <<"Apply">> }

Target(el, trash, circle, tag, text) ==
  [el |-> el, trash |-> trash, circle |-> circle, tag |-> tag, text |-> text]

\* Targets of a click in the container: inside an attached job entry (its
\* trash icon, its round delete control or a button in it, a button, its
\* badge, plain content) or outside every job entry.
JobTargets ==
  UNION { { Target(e, TRUE, TRUE, "I", <<>>),
            Target(e, FALSE, TRUE, "DIV", <<>>),
            Target(e, FALSE, TRUE, "BUTTON", <<"Interview">>),
            Target(e, FALSE, FALSE, "H3", <<"Interview">>),
            Target(e, FALSE, FALSE, "BUTTON", badgeText[e]) }
          \cup { Target(e, FALSE, FALSE, "BUTTON", t) : t \in ButtonTexts }
          : e \in attached }
  \cup { Target(NoElement, FALSE, FALSE, "DIV", <<>>),
         Target(NoElement, FALSE, FALSE, "BUTTON", <<"Interview">>) }

\* closest that falls back to the first job entry of the container.
closestOrFirst(e) ==
  IF e.el \in attached THEN e.el
  ELSE IF attached # {} THEN CHOOSE x \in attached : \A y \in attached : x <= y
  ELSE NoElement

\* e.target.closest(".job-item")
closest(e) ==
  IF e.el \in attached THEN e.el
  ELSE IF markup.wrapped THEN Wrapper ELSE NoElement

\* isDeleteAction that knows the trash icon only.
isDeleteActionTrashOnly(e) == e.trash

\* e.target.closest(".fa-trash") || e.target.closest("div.border.rounded-full")
isDeleteAction(e) == e.trash \/ e.circle

\* The text of the whole tab bar.
TabBarText == TabText("All") \o TabText("Interview") \o TabText("Rejected")

\* handleTabClick without the test for a button.
handleTabClickAnyTarget(e) ==
  /\ tabClass' = [b \in TabButtons |-> b = e.button]
  /\ currentTab' = trim(IF e.button \in TabButtons THEN TabText(e.button)
                                                   ELSE TabBarText)
  /\ renderJobs(jobs, currentTab', display)
  /\ UNCHANGED <<jobs, markup, attached, dataset, badgeText, badgeClass,
                 dashboard>>
  /\ last' = Quiet("tab", "tab", NoElement, NoElement, -1)

\* handleTabClick that does not reset the other tab buttons.
handleTabClickKeep(e) ==
  IF e.tag # "BUTTON"
  THEN /\ UNCHANGED view
       /\ last' = Quiet("tab", "tabIgnored", NoElement, NoElement, -1)
  ELSE /\ tabClass' = [b \in TabButtons |-> tabClass[b] \/ b = e.button]
       /\ currentTab' = trim(TabText(e.button))
       /\ renderJobs(jobs, currentTab', display)
       /\ UNCHANGED <<jobs, markup, attached, dataset, badgeText, badgeClass,
                      dashboard>>
       /\ last' = Quiet("tab", "tab", NoElement, NoElement, -1)

handleTabClick(e) ==
  IF e.tag # "BUTTON"
  THEN /\ UNCHANGED view
       /\ last' = Quiet("tab", "tabIgnored", NoElement, NoElement, -1)
  ELSE /\ tabClass' = [b \in TabButtons |-> b = e.button]
       /\ currentTab' = trim(TabText(e.button))
       /\ renderJobs(jobs, currentTab', display)
       /\ UNCHANGED <<jobs, markup, attached, dataset, badgeText, badgeClass,
                      dashboard>>
       /\ last' = Quiet("tab", "tab", NoElement, NoElement, -1)

handleJobAction(e) ==
  LET jobEl == closest(e)
      jobIndex == findIndex(jobs, jobEl)
      btnText == toLowerCase(trim(e.text))
  IN  IF jobEl = NoElement
      THEN /\ UNCHANGED view
           /\ last' = Quiet("click", "outside", e.el, jobEl, -1)
      ELSE IF jobIndex = -1
      THEN /\ UNCHANGED view
           /\ last' = Quiet("click", "norecord", e.el, jobEl, jobIndex)
      ELSE IF isDeleteAction(e)
      THEN IF deleteJobThrows(jobIndex)
           THEN /\ UNCHANGED view
                /\ last' = Quiet("click", "deleteThrew", e.el, jobEl, jobIndex)
           ELSE /\ deleteJob(jobIndex)
                /\ last' = Event("click", "delete", e.el, jobEl, jobIndex,
                                 "none", at(jobs, jobIndex).status)
      ELSE IF /\ e.tag = "BUTTON"
              /\ (btnText = Str("interview") \/ btnText = Str("rejected"))
      THEN IF updateJobStatusThrows(jobIndex)
           THEN /\ UNCHANGED view
                /\ last' = Quiet("click", "statusThrew", e.el, jobEl, jobIndex)
           ELSE /\ updateJobStatus(jobIndex, btnText)
                /\ last' = Event("click", "status", e.el, jobEl, jobIndex,
                                 btnText[1], at(jobs, jobIndex).status)
      ELSE /\ UNCHANGED view
           /\ last' = Quiet("click", "unhandled", e.el, jobEl, jobIndex)

TabClick == \E e \in TabTargets : handleTabClick(e)

JobClick == \E e \in JobTargets : handleJobAction(e)

Next == TabClick \/ JobClick

Spec == Init /\ [][Next]_vars

\* The same controller over markup whose optional pieces may be missing.
SpecMarkup == InitMarkup /\ [][Next]_vars

----------------------------------------------------------------------------
\* The two operations called directly, with any index around the collection.

CallIndices == (-1)..(Len(jobs) + 1)

CallDeleteJob ==
  \E index \in CallIndices :
    IF deleteJobThrows(index)
    THEN /\ UNCHANGED view
         /\ last' = Quiet("call", "deleteThrew", NoElement, NoElement, index)
    ELSE /\ deleteJob(index)
         /\ last' = Event("call", "delete", NoElement, at(jobs, index).element,
                          index, "none", at(jobs, index).status)

CallUpdateJobStatus ==
  \E index \in CallIndices, label \in {Str("interview"), Str("rejected")} :
    IF updateJobStatusThrows(index)
    THEN /\ UNCHANGED view
         /\ last' = Quiet("call", "statusThrew", NoElement, NoElement, index)
    ELSE /\ updateJobStatus(index, label)
         /\ last' = Event("call", "status", NoElement, at(jobs, index).element,
                          index, label[1], at(jobs, index).status)

NextCalls == TabClick \/ JobClick \/ CallDeleteJob \/ CallUpdateJobStatus

SpecCalls == InitCalls /\ [][NextCalls]_vars

----------------------------------------------------------------------------
\* Reading the displays back

DigitValue(c) ==
  CASE c = "0" -> 0 [] c = "1" -> 1 [] c = "2" -> 2 [] c = "3" -> 3
    [] c = "4" -> 4 [] c = "5" -> 5 [] c = "6" -> 6 [] c = "7" -> 7
    [] c = "8" -> 8 [] c = "9" -> 9 [] OTHER -> -1

IsNumber(t) == t # <<>> /\ \A i \in 1..Len(t) : DigitValue(t[i]) >= 0

RECURSIVE TextToNum(_)
TextToNum(t) ==
  IF Len(t) = 1 THEN DigitValue(t[1])
  ELSE 10 * TextToNum(SubSeq(t, 1, Len(t) - 1)) + DigitValue(t[Len(t)])

\* The number a text shows, -1 when it shows none.
Shown(t) == IF IsNumber(t) THEN TextToNum(t) ELSE -1

\* The count a "{count} jobs" message shows, -1 when the text is no such message.
ShownJobs(t) ==
  IF Len(t) >= 3 /\ SubSeq(t, Len(t) - 1, Len(t)) = <<" ", "jobs">>
  THEN Shown(SubSeq(t, 1, Len(t) - 2))
  ELSE -1

RecordElements == {jobs[i].element : i \in 1..Len(jobs)}

StatusesOf(js) == [i \in 1..Len(js) |-> js[i].status]

ShownRecords == {i \in 1..Len(jobs) : display[jobs[i].element] = "block"}

HiddenRecords == {i \in 1..Len(jobs) : display[jobs[i].element] = "none"}

----------------------------------------------------------------------------
\* C1: the collection and the attached job-entry elements correspond one to
\* one: every record's element is attached, every attached job entry has
\* exactly one record, no element is in two records, and every record's
\* status is the status tag of its element.
C1_Sync ==
  /\ \A i \in 1..Len(jobs) : jobs[i].element \in attached
  /\ \A e \in attached :
       Cardinality({i \in 1..Len(jobs) : jobs[i].element = e}) = 1
  /\ \A i, k \in 1..Len(jobs) : jobs[i].element = jobs[k].element => i = k
  /\ \A i \in 1..Len(jobs) :
       /\ jobs[i].element \in DOMAIN dataset
       /\ dataset[jobs[i].element] = jobs[i].status

\* A deletion in the middle of a collection that holds touched records.
C1_Witness ==
  /\ last.kind = "delete"
  /\ \E i, k \in 1..Len(jobs) :
       /\ jobs[i].element < last.el /\ last.el < jobs[k].element
       /\ jobs[k].status # "none"

\* C2: every dashboard card that exists shows the collection's size, its
\* number of Interview records and its number of Rejected records, after
\* initialization and after every event, a tab selection included.
C2_Dashboard ==
  /\ "Total" \in markup.dashboard => Shown(dashboard["Total"]) = Len(jobs)
  /\ "Interview" \in markup.dashboard =>
       Shown(dashboard["Interview"]) =
         Cardinality({i \in 1..Len(jobs) : jobs[i].status = "Interview"})
  /\ "Rejected" \in markup.dashboard =>
       Shown(dashboard["Rejected"]) =
         Cardinality({i \in 1..Len(jobs) : jobs[i].status = "Rejected"})

\* A tab selection over a collection with a Rejected record and a deleted
\* one, one dashboard card missing.
C2_Witness ==
  /\ last.kind = "tab"
  /\ markup.dashboard = {"Interview", "Rejected"}
  /\ Len(jobs) < markup.n
  /\ \E i \in 1..Len(jobs) : jobs[i].status = "Rejected"
  /\ Shown(dashboard["Rejected"]) = 1

\* C3: a record's element is shown iff (FilterSelection = All and its status
\* is None) or FilterSelection = its status, and hidden otherwise; the count
\* message is "{count} jobs" with count the number of shown records.  With
\* statuses [None, Interview, Rejected, None], tab All shows exactly records
\* 0 and 3 and tab Interview exactly record 1.
C3_Visibility ==
  /\ \A i \in 1..Len(jobs) :
       LET shown == \/ currentTab = <<"All">> /\ jobs[i].status = "none"
                    \/ currentTab = <<jobs[i].status>>
       IN  display[jobs[i].element] = IF shown THEN "block" ELSE "none"
  /\ markup.countMsg => ShownJobs(countMsg) = Cardinality(ShownRecords)
  /\ StatusesOf(jobs) = <<"none", "Interview", "Rejected", "none">> =>
       /\ currentTab = <<"All">> =>
            ShownRecords = {1, 4} /\ HiddenRecords = {2, 3}
       /\ currentTab = <<"Interview">> =>
            ShownRecords = {2} /\ HiddenRecords = {1, 3, 4}

\* The four records of the example under tab Interview.
C3_Witness ==
  /\ StatusesOf(jobs) = <<"none", "Interview", "Rejected", "none">>
  /\ currentTab = <<"Interview">>
  /\ ShownJobs(countMsg) = 1

\* C4: the empty-state block is shown iff no record is shown; the container
\* never holds more than one such block; a block once built stays attached,
\* and is hidden, not removed, when a record is shown again.
C4_EmptyState ==
  /\ [](/\ emptyBlocks <= 1
        /\ (emptyBlocks = 1 /\ emptyDisplay = "flex") <=> ShownRecords = {})
  /\ [][/\ emptyBlocks' >= emptyBlocks
        /\ (emptyBlocks = 1 /\ ShownRecords' # {}) =>
             (emptyBlocks' = 1 /\ emptyDisplay' = "none")]_vars

\* The block was built and shown, records are shown again, and the block is
\* still attached, hidden.
C4_Witness ==
  /\ emptyBlocks = 1
  /\ emptyDisplay = "none"
  /\ ShownRecords # {}
  /\ last.kind = "tab"

\* What the dashboard shows.
ShownCount(dash, k) == Shown(dash[k])

StatusOfLabel(l) == IF l = "interview" THEN "Interview" ELSE "Rejected"

\* The last event is a status transition to s.
Transition(ev, s) == ev.kind = "status" /\ StatusOfLabel(ev.label) = s

\* C5 as stated: after updateJobStatus(i, "interview") record i has status
\* Interview and so has its tag, the Interview count has grown by exactly 1
\* and the count of the status the record held has shrunk by 1, whatever
\* that status was.
C5_Original ==
  [][Transition(last', "Interview") =>
       LET prior == at(jobs, last'.index).status
       IN  /\ at(jobs', last'.index).status = "Interview"
           /\ dataset'[last'.el] = "Interview"
           /\ ShownCount(dashboard', "Interview") =
                ShownCount(dashboard, "Interview") + 1
           /\ \A s \in {"Interview", "Rejected"} :
                prior = s =>
                  ShownCount(dashboard', s) = ShownCount(dashboard, s) - 1]_vars

\* C5 (amended): after updateJobStatus(i, "interview") record i has status
\* Interview and so has its tag; the Interview count has grown by exactly 1
\* when the record was not Interview before and is unchanged when it was;
\* the Rejected count has shrunk by 1 when the record was Rejected and is
\* unchanged otherwise; Total is unchanged.
C5_Transition ==
  [][Transition(last', "Interview") =>
       LET prior == at(jobs, last'.index).status
       IN  /\ ValidIndex(jobs, last'.index)
           /\ at(jobs', last'.index).status = "Interview"
           /\ at(jobs', last'.index).element = last'.el
           /\ dataset'[last'.el] = "Interview"
           /\ ShownCount(dashboard', "Interview") =
                ShownCount(dashboard, "Interview")
                + (IF prior = "Interview" THEN 0 ELSE 1)
           /\ ShownCount(dashboard', "Rejected") =
                ShownCount(dashboard, "Rejected")
                - (IF prior = "Rejected" THEN 1 ELSE 0)
           /\ ShownCount(dashboard', "Total") = ShownCount(dashboard, "Total")]_vars

\* A Rejected record was set to Interview by a direct call: the dashboard
\* shows one Interview and no Rejected.
C5_Witness ==
  /\ Transition(last, "Interview")
  /\ last.via = "call"
  /\ last.prior = "Rejected"
  /\ ShownCount(dashboard, "Interview") = 1
  /\ ShownCount(dashboard, "Rejected") = 0

\* C6: updateJobStatus(i, s) called a second time in a row leaves the whole
\* state as the first call left it: collection, statuses, tags, badges,
\* dashboard, visibility, count message, empty state, FilterSelection.
C6_Idempotent ==
  [][(/\ last.kind = "status" /\ last'.kind = "status"
      /\ last'.index = last.index /\ last'.label = last.label) =>
       UNCHANGED view]_vars

\* The same transition has just been applied twice to a record, under a tab
\* that shows nothing.
C6_Witness ==
  /\ last.kind = "status"
  /\ last.prior = StatusOfLabel(last.label)
  /\ emptyDisplay = "flex"
  /\ Len(jobs) >= 2

\* The records of js other than the one of element el, in order.
Others(js, el) == SelectSeq(js, LAMBDA r : r.element # el)

\* C7: deleting the record at a valid index i detaches exactly its element
\* and removes exactly that record: the collection shrinks by one, the
\* records before i stay where they are, the records after i move down by
\* one, each with its status, and FilterSelection is unchanged.
C7_DeleteFrame ==
  [][last'.kind = "delete" =>
       LET i == last'.index
       IN  /\ ValidIndex(jobs, i)
           /\ at(jobs, i).element = last'.el
           /\ last'.el \in attached
           /\ attached' = attached \ {last'.el}
           /\ Len(jobs') = Len(jobs) - 1
           /\ \A k \in 0..(Len(jobs') - 1) :
                at(jobs', k) = IF k < i THEN at(jobs, k) ELSE at(jobs, k + 1)
           /\ currentTab' = currentTab]_vars

\* A record with records on both sides was deleted, and the one after it was
\* touched.
C7_Witness ==
  /\ last.kind = "delete"
  /\ last.index >= 1
  /\ last.index < Len(jobs)
  /\ at(jobs, last.index).status = "Interview"

\* C8: a click inside a job entry acts on the record of that entry (found by
\* element identity when the click is handled) and on no other, also after
\* deletions have moved the indices: every other record stays in the
\* collection, in order, with its status, tag and element attached; a delete
\* removes the entry's record and element, a status click sets its status.
C8_ClickIdentity ==
  [][(last'.via = "click" /\ last'.target # NoElement) =>
       LET t == last'.target
       IN  /\ last'.kind \in {"delete", "status", "unhandled"}
           /\ Others(jobs', t) = Others(jobs, t)
           /\ attached' \ {t} = attached \ {t}
           /\ \A e \in attached' \ {t} : dataset'[e] = dataset[e]
           /\ last'.kind = "delete" =>
                /\ t \notin attached'
                /\ \A k \in 1..Len(jobs') : jobs'[k].element # t
           /\ last'.kind = "status" =>
                /\ t \in attached'
                /\ \E k \in 1..Len(jobs') :
                     /\ jobs'[k].element = t
                     /\ jobs'[k].status = StatusOfLabel(last'.label)
           /\ last'.kind = "unhandled" => jobs' = jobs /\ attached' = attached]_vars

\* The entry that was first in the markup was deleted, and a status click
\* then hit an entry whose index is no longer the one it had at load.
C8_Witness ==
  /\ last.via = "click"
  /\ last.kind = "status"
  /\ 1 \notin attached
  /\ last.index = last.el - 2
  /\ last.index + 1 < Len(jobs)

\* C9: a click in the container whose target is in no job entry, or whose
\* enclosing job entry has no record, changes nothing and raises nothing.
C9_IgnoredClick ==
  [][(last'.via = "click" /\ last'.target \notin RecordElements) =>
       /\ UNCHANGED view
       /\ last'.kind \in {"outside", "norecord"}]_vars

\* A click resolved to a job entry that has no record, with records in the
\* collection, one of them touched.
C9_Witness ==
  /\ last.kind = "norecord"
  /\ last.el = Wrapper
  /\ \E i \in 1..Len(jobs) : jobs[i].status # "none"

\* C10: deleteJob with an index that is not in the collection removes no
\* record, detaches no element and leaves the whole state as it was.
C10_InvalidDelete ==
  [][(last'.kind \in {"delete", "deleteThrew"} /\ ~ValidIndex(jobs, last'.index)) =>
       /\ UNCHANGED view
       /\ last'.kind = "deleteThrew"]_vars

\* deleteJob was called with the index the last record had before an earlier
\* deletion.
C10_Witness ==
  /\ last.kind = "deleteThrew"
  /\ last.via = "call"
  /\ last.index = Len(jobs)
  /\ Len(jobs) >= 1
  /\ Len(jobs) < markup.n

\* The word a label consists of when white space around it is left out
\* ("" when it is not one word).
LabelWord(text) ==
  LET words == SelectSeq(text, LAMBDA x : x \notin WS)
  IN  IF Len(words) = 1 THEN words[1] ELSE ""

\* The status a label names, whatever its case ("none" when it names none).
LabelStatus(text) ==
  CASE LabelWord(text) \in {"interview", "Interview", "INTERVIEW"} -> "Interview"
    [] LabelWord(text) \in {"rejected", "Rejected", "REJECTED"} -> "Rejected"
    [] OTHER -> "none"

\* The record of element el has status s in js.
HasStatus(js, el, s) ==
  \E k \in 1..Len(js) : js[k].element = el /\ js[k].status = s

\* What a click on target e of a job entry with a record has to do: a target
\* in a delete region deletes; else a button labelled interview or rejected
\* sets that status; else nothing changes.
Dispatched(e) ==
  IF e.trash \/ e.circle
  THEN /\ jobs' = Others(jobs, e.el)
       /\ Len(jobs') = Len(jobs) - 1
       /\ attached' = attached \ {e.el}
       /\ currentTab' = currentTab
  ELSE IF e.tag = "BUTTON" /\ LabelStatus(e.text) # "none"
  THEN /\ HasStatus(jobs', e.el, LabelStatus(e.text))
       /\ dataset'[e.el] = LabelStatus(e.text)
       /\ Others(jobs', e.el) = Others(jobs, e.el)
       /\ Len(jobs') = Len(jobs)
       /\ attached' = attached
       /\ currentTab' = currentTab
  ELSE UNCHANGED view

\* C11: a click inside a job entry that has a record is dispatched in strict
\* priority: a target in a delete region deletes the entry and sets no
\* status, also when it is a button labelled interview or rejected; else a
\* button whose trimmed label is "interview" or "rejected" in any case sets
\* that status and the collection keeps its size; else nothing changes.
C11_Dispatch ==
  [][last'.via = "click" =>
       \A e \in JobTargets :
         (e.el = last'.target /\ e.el \in RecordElements /\ handleJobAction(e))
           => Dispatched(e)]_vars

\* A click deleted an Interview record while other records stay, one of them
\* Rejected.
C11_Witness ==
  /\ last.via = "click"
  /\ last.kind = "delete"
  /\ last.prior = "Interview"
  /\ \E i \in 1..Len(jobs) : jobs[i].status = "Rejected"

\* The label of tab button b without the white space around it.
TabLabel(b) == <<LabelWord(TabText(b))>>

\* C12: a tab selection changes only FilterSelection, the tab highlight and
\* the derived view (visibility, count message, empty state): collection,
\* order, statuses, status tags, badges and dashboard values stay; a click
\* in the tab bar that is on no button changes nothing at all.
C12_TabFrame ==
  [][last'.via = "tab" =>
       \A e \in TabTargets :
         handleTabClick(e) =>
           /\ UNCHANGED <<jobs, attached, dataset, badgeText, badgeClass,
                          dashboard, markup>>
           /\ e.tag # "BUTTON" => UNCHANGED view]_vars

\* A tab selection over touched records that shows some and hides others.
C12_Witness ==
  /\ last.kind = "tab"
  /\ currentTab = <<"Rejected">>
  /\ ShownRecords # {}
  /\ HiddenRecords # {}

\* C13: FilterSelection is always one of All, Interview, Rejected; it starts
\* as All; only a tab selection changes it; after a tab selection it is the
\* trimmed label of the button clicked.
C13_FilterSelection ==
  /\ currentTab = <<"All">>
  /\ [](currentTab \in {<<"All">>, <<"Interview">>, <<"Rejected">>})
  /\ [][currentTab' # currentTab => last'.kind = "tab"]_vars
  /\ [][last'.via = "tab" =>
          \A e \in TabTargets :
            (e.tag = "BUTTON" /\ handleTabClick(e)) =>
              currentTab' = TabLabel(e.button)]_vars

\* The tab whose label the markup surrounds with white space was selected,
\* over a collection that has been changed.
C13_Witness ==
  /\ last.kind = "tab"
  /\ currentTab = <<"Interview">>
  /\ Len(jobs) < markup.n
  /\ \E i \in 1..Len(jobs) : jobs[i].status # "none"

\* Exactly one tab button is emphasized, and its label is FilterSelection.
OneTabEmphasized ==
  /\ Cardinality({b \in TabButtons : tabClass[b]}) = 1
  /\ \A b \in TabButtons : tabClass[b] <=> TabLabel(b) = currentTab

\* C14: after a tab click on a button exactly one tab button is emphasized,
\* the one clicked, whose label is FilterSelection, and the others are not;
\* so it is after every further event, the same tab clicked again included.
C14_TabHighlight ==
  /\ [][last'.via = "tab" =>
          \A e \in TabTargets :
            (e.tag = "BUTTON" /\ handleTabClick(e)) =>
              /\ OneTabEmphasized'
              /\ \A b \in TabButtons : tabClass'[b] <=> b = e.button]_vars
  /\ [][OneTabEmphasized => OneTabEmphasized']_vars

\* The emphasized tab was clicked again.
C14_Witness ==
  /\ last.kind = "tab"
  /\ tabClass["Rejected"]
  /\ ~tabClass["All"]
  /\ currentTab = <<"Rejected">>
  /\ emptyDisplay = "flex"

\* C15: initialization over N job entries gives N records in document order,
\* each with status None and status tag "none" (none for N = 0); after the
\* first render FilterSelection is All, all N entries are shown, the count
\* message is "N jobs", the dashboard shows Total = N, Interview = 0,
\* Rejected = 0, and the empty-state block is shown iff N = 0.
C15_Initialization ==
  last.kind = "init" =>
    /\ Len(jobs) = markup.n
    /\ \A i \in 1..markup.n :
         /\ jobs[i] = [element |-> i, status |-> "none"]
         /\ dataset[i] = "none"
         /\ display[i] = "block"
    /\ attached = 1..markup.n
    /\ currentTab = <<"All">>
    /\ ShownJobs(countMsg) = markup.n
    /\ Shown(dashboard["Total"]) = markup.n
    /\ Shown(dashboard["Interview"]) = 0
    /\ Shown(dashboard["Rejected"]) = 0
    /\ (emptyBlocks = 1 /\ emptyDisplay = "flex") <=> markup.n = 0
    /\ emptyBlocks = IF markup.n = 0 THEN 1 ELSE 0

\* The page has just been loaded with three job entries.
C15_Witness ==
  /\ last.kind = "init"
  /\ markup.n = 3
  /\ ShownJobs(countMsg) = 3
  /\ emptyBlocks = 0

\* C16: records are created at initialization only: the collection never
\* grows and receives no new element; it shrinks only by a deletion, and
\* then by exactly one; every status is None, Interview or Rejected; a
\* record whose status has left None never has None again.
C16_Lifecycle ==
  /\ [](\A i \in 1..Len(jobs) : jobs[i].status \in {"none", "Interview", "Rejected"})
  /\ [][/\ Len(jobs') <= Len(jobs)
        /\ RecordElements' \subseteq RecordElements
        /\ Len(jobs') < Len(jobs) =>
             (last'.kind = "delete" /\ Len(jobs') = Len(jobs) - 1)
        /\ \A i \in 1..Len(jobs), k \in 1..Len(jobs') :
             (jobs[i].element = jobs'[k].element /\ jobs[i].status # "none")
               => jobs'[k].status # "none"]_vars

\* An Interview record was re-assigned to Rejected after a deletion.
C16_Witness ==
  /\ last.kind = "status"
  /\ last.prior = "Interview"
  /\ last.label = "rejected"
  /\ Len(jobs) < markup.n
  /\ \E i \in 1..Len(jobs) : jobs[i].status = "none"

\* C17: updateJobStatus(i, s) with a valid index i changes record i's
\* status, tag and badge and the derived displays only: the collection keeps
\* its size and order, every other record its status, tag and badge, and
\* FilterSelection stays.
C17_StatusFrame ==
  [][last'.kind = "status" =>
       LET i == last'.index + 1
       IN  /\ i \in 1..Len(jobs)
           /\ Len(jobs') = Len(jobs)
           /\ \A k \in 1..Len(jobs) :
                /\ jobs'[k].element = jobs[k].element
                /\ k # i => jobs'[k].status = jobs[k].status
           /\ jobs'[i].status = StatusOfLabel(last'.label)
           /\ \A e \in attached \ {jobs[i].element} :
                /\ dataset'[e] = dataset[e]
                /\ badgeText'[e] = badgeText[e]
                /\ badgeClass'[e] = badgeClass[e]
           /\ attached' = attached
           /\ currentTab' = currentTab
           /\ tabClass' = tabClass]_vars

\* A direct call set the status of the last of three records, the others
\* being None and Rejected.
C17_Witness ==
  /\ last.kind = "status"
  /\ last.via = "call"
  /\ last.index = 2
  /\ StatusesOf(jobs) = <<"none", "Rejected", "Interview">>

\* Every record with a badge and a status Interview or Rejected carries that
\* status as its badge label.
BadgeLabels ==
  \A i \in 1..Len(jobs) :
    (jobs[i].element \in markup.badges /\ jobs[i].status # "none")
      => badgeText[jobs[i].element] = <<jobs[i].status>>

\* C18: a status transition on a job entry without a badge button still sets
\* the record's status and its tag and recomputes dashboard, visibility and
\* count message, and raises nothing; with a badge, the badge label is the
\* new status after the transition, so every record with a badge and status
\* Interview or Rejected has its status as badge label.
C18_Badge ==
  /\ [](BadgeLabels /\ last.kind # "statusThrew")
  /\ [][last'.kind = "status" =>
          LET s == StatusOfLabel(last'.label)
          IN  /\ HasStatus(jobs', last'.el, s)
              /\ dataset'[last'.el] = s
              /\ C2_Dashboard'
              /\ C3_Visibility'
              /\ IF last'.el \in markup.badges
                 THEN badgeText'[last'.el] = <<s>>
                 ELSE badgeText' = badgeText /\ badgeClass' = badgeClass]_vars

\* A record without badge button was set to Interview and the dashboard
\* counts it.
C18_Witness ==
  /\ last.kind = "status"
  /\ last.el \notin markup.badges
  /\ HasStatus(jobs, last.el, "Interview")
  /\ Shown(dashboard["Interview"]) >= 1
  /\ badgeText[last.el] = NoText

\* C19: the count message agrees with the dashboard: under tab Interview it
\* shows the Interview count, under tab Rejected the Rejected count, under
\* tab All Total - Interview - Rejected; so it never exceeds Total.  With 3
\* jobs of which one is Interview: Total 3, Interview 1, Rejected 0, tab All
\* shows 2 and tab Interview shows 1.
C19_CrossView ==
  LET total == Shown(dashboard["Total"])
      interview == Shown(dashboard["Interview"])
      rejected == Shown(dashboard["Rejected"])
      visible == ShownJobs(countMsg)
  IN  /\ visible >= 0 /\ visible <= total
      /\ visible = Cardinality(ShownRecords)
      /\ currentTab = <<"Interview">> => visible = interview
      /\ currentTab = <<"Rejected">> => visible = rejected
      /\ currentTab = <<"All">> => visible = total - interview - rejected
      /\ (Len(jobs) = 3 /\ CountStatus(jobs, "Interview") = 1
          /\ CountStatus(jobs, "none") = 2) =>
           /\ total = 3 /\ interview = 1 /\ rejected = 0
           /\ currentTab = <<"All">> => visible = 2
           /\ currentTab = <<"Interview">> => visible = 1

\* Three jobs, Interview set on one of them, tab Interview selected.
C19_Witness ==
  /\ markup.n = 3
  /\ Len(jobs) = 3
  /\ CountStatus(jobs, "Interview") = 1
  /\ CountStatus(jobs, "none") = 2
  /\ currentTab = <<"Interview">>
  /\ ShownJobs(countMsg) = 1

\* C20: right after a status transition of a record to s the record is shown
\* iff FilterSelection = s, so under tab All the entry acted on is hidden;
\* the number of entries tab All shows (the None records) never grows, and
\* once it is zero tab All shows the empty state from then on.
C20_Transitions ==
  /\ [][last'.kind = "status" =>
          LET s == StatusOfLabel(last'.label)
          IN  /\ display'[last'.el] = IF currentTab' = <<s>> THEN "block" ELSE "none"
              /\ currentTab' = <<"All">> => display'[last'.el] = "none"]_vars
  /\ [][CountStatus(jobs', "none") <= CountStatus(jobs, "none")]_vars
  /\ [](currentTab = <<"All">> =>
          /\ Cardinality(ShownRecords) = CountStatus(jobs, "none")
          /\ CountStatus(jobs, "none") = 0 =>
               (emptyBlocks = 1 /\ emptyDisplay = "flex"))

\* Under tab All the last None record was set to Rejected: the entry is
\* hidden and the empty state is shown.
C20_Witness ==
  /\ last.kind = "status"
  /\ last.prior = "none"
  /\ currentTab = <<"All">>
  /\ Len(jobs) >= 2
  /\ CountStatus(jobs, "none") = 0
  /\ display[last.el] = "none"
  /\ emptyDisplay = "flex"

====
